---- MODULE Spec2Model ----
(***************************************************************************)
(* Verification model of the PRIDE mzIdentML mirror pipeline:              *)
(*   gatherMzid.py        crawler / resilient downloader                   *)
(*   report.py            report ledger builder                            *)
(*   validate_schemas.py  validation scheduler                             *)
(* Each subsystem has its own specification over the shared variables;     *)
(* the variables of the other subsystems stay at their initial values.     *)
(***************************************************************************)
EXTENDS Integers, Sequences, FiniteSets, TLC

(***************************************************************************)
(* Bounds of the model                                                     *)
(***************************************************************************)
\* largest attempt bound (max_retries) a fetch_file call is given
MaxRetriesBound == 2
\* cap on the attempts explored when max_retries = 0 (unbounded): enough for
\* the delay to reach max_delay (1.0 * 2^9 > 300.0)
MaxAttemptCap == 11
\* number of fetch_file calls made for the same target
MaxCalls == 2
\* contains_string: longest file content, longest marker, largest chunk size
MaxContentLen == 4
MaxMarkerLen == 3
MaxChunk == 3
\* generate_report: runs started, and how many of them may crash
MaxReportRuns == 3
MaxReportCrashes == 2
\* validate_schemas: rows of a ledger tried in every order, rows of the
\* longer ledgers, runs started
MaxArranged == 3
MaxRows == 5
MaxSchedRuns == 2
\* all_years: years in the archive, months in a year, projects in a month
MaxYears == 2
MaxMonths == 2
MaxProjects == 2
\* get_ftp_login: largest max_retries, and attempts made when it is 0
MaxLoginRetries == 3
MaxLoginAttempts == 4
\* format_file_size: sizes 0..MaxSize in bytes and in KB
MaxSize == 2500
\* fetch_month: lines of a project's LIST reply, sibling projects of the
\* month, attempts explored of an unbounded fetch_file
MaxLines == 3
MaxSiblings == 2
MaxFileAttempts == 2

(***************************************************************************)
(* Program constants (delays in milliseconds)                              *)
(***************************************************************************)
\* fetch_file / get_ftp_login: base_delay = 1.0
BaseDelay == 1000
\* fetch_file / get_ftp_login: max_delay = 300.0
MaxDelay == 300000
\* get_ftp_login: max_retries = 10
LoginMaxRetries == 10
\* contains_string: chunk_size = 1024 * 1024
DefaultChunkSize == 1048576

VARIABLES
    \* ---- gatherMzid.py : fetch_file / get_ftp_login ----
    fpc,            \* position of fetch_file
    fresult,        \* how the last fetch_file call ended
    localFile,      \* the file at the target local path
    ftpOpen,        \* number of sessions that are open
    ftp,            \* the session bound to fetch_file's variable ftp
    max_retries,    \* fetch_file's attempt bound of the current call
    attempt,        \* fetch_file's attempt counter
    delay,          \* fetch_file's un-jittered delay
    slept,          \* duration of the last time.sleep
    lattempt,       \* get_ftp_login's attempt counter
    ldelay,         \* get_ftp_login's un-jittered delay
    calls,          \* fetch_file calls started so far
    existedAtCall,  \* os.path.exists(path) as seen by the current call
    callSessions,   \* sessions opened by the current call
    callRequests,   \* remote commands issued by the current call
    transfers,      \* RETR commands that delivered the whole file, all calls
    transientFails, \* transient failures caught by the current call
    permAt,         \* attempt at which error_perm was caught (0: none)
    fileOpened,     \* the current attempt has opened the local file
    \* ---- report.py : contains_string ----
    spc,            \* "input": arguments chosen, "done": the call returned
    s_content,      \* the bytes of the file
    s_search,       \* search_bytes
    s_chunk,        \* chunk_size
    s_found,        \* the value returned
    \* ---- report.py : generate_report ----
    mirror,         \* the files under MZID_STORE (the ledger file apart)
    report_csv,     \* REPORT_PATH on disk: exists, header line, data rows
    rpc,            \* position of generate_report
    rbuf,           \* what csvfile holds written but not flushed
    existing_entries, \* the set load_existing_report returned
    file_exists,    \* os.path.exists(REPORT_PATH) before the open
    todo,           \* files os.walk has still to yield
    reportRuns,     \* generate_report runs started
    reportCrashes,  \* runs that crashed
    crashed,        \* the last run crashed
    rowsAtStart,    \* the data rows on disk when the run started
    coveredAtStart, \* every reportable mirrored file had a ledger row then
    readFiles,      \* files the run has read (size, marker, parse)
    \* ---- report.py : generate_crosslinking_report ----
    crosslinking_csv, \* the file at CROSSLINKING_PATH
    crossed,        \* the latest step was generate_crosslinking_report
                    \* finding a ledger
    \* ---- validate_schemas.py : validate_schemas ----
    store,          \* the files under MZID_STORE that find_file_path sees
    sched_csv,      \* the file at csv_path: exists, header line, data rows
    vpc,            \* position of validate_schemas
    rows,           \* the list rows (sorted), updated in place
    rows_to_validate, \* the filtered list, as positions in rows
    vi,             \* position of the for loop in rows_to_validate
    use_filter,     \* the runs on this file are given is_non_crosslinking
    schedRuns,      \* validate_schemas runs started
    rowsRead,       \* the rows as the run read them from the file
    invoked,        \* positions in rows the validator was called on, in order
    exhaustedAt,    \* position in rows of the row that exhausted resources
    lastEvent,      \* what happened to the worker of the run's latest call
    \* ---- gatherMzid.py : all_years, fetch_year, fetch_month, fetch_project
    remote,         \* the archive: how many years, months a year, projects
    cpc,            \* position of the walk
    cyears,         \* entries of all_years' listing not yet visited
    cmonths,        \* entries of fetch_year's listing not yet visited
    cprojects,      \* entries of fetch_month's listing not yet visited
    listed,         \* directories whose listing or crawl was attempted
    cfail,          \* the failure that was raised: its kind and directory
    \* ---- gatherMzid.py : get_ftp_login ----
    lg_max,         \* the argument max_retries
    lg_pc,          \* position: "idle", "loop", "returned", "raised"
    lg_attempt,     \* attempt
    lg_delay,       \* delay (ms)
    lg_sleeps,      \* the arguments of the time.sleep calls, in order
    lg_fails,       \* attempts in which FTP(ip) or login() raised
    lg_session,     \* the value returned: "none" or "logged_in"
    \* ---- report.py : format_file_size, validate_schemas.py : parse_file_size
    sz_pc,          \* "idle", then "done"
    sz_n,           \* a file size in bytes
    sz_text,        \* format_file_size(sz_n)
    sz_back,        \* parse_file_size(sz_text)
    \* ---- gatherMzid.py : fetch_month, fetch_project and their sessions
    pj_pc,          \* position in fetch_month / fetch_project / fetch_file
    pj_listing,     \* the lines the LIST command returns for a project
    pj_projects,    \* entries of fetch_month's listing not yet visited
    pj_rest,        \* lines of listing the for loop has still to take
    pj_fetched,     \* file names passed to fetch_file, in order
    pj_open,        \* remote sessions that are open
    pj_attempt,     \* attempt of the fetch_file call under way
    pj_done         \* fetch_project calls that returned

fetchVars == <<fpc, fresult, localFile, ftpOpen, ftp, max_retries, attempt, delay,
               slept, lattempt, ldelay, calls, existedAtCall, callSessions,
               callRequests, transfers, transientFails, permAt, fileOpened>>

searchVars == <<spc, s_content, s_search, s_chunk, s_found>>

reportVars == <<mirror, report_csv, rpc, rbuf, existing_entries, file_exists,
                todo, reportRuns, reportCrashes, crashed, rowsAtStart,
                coveredAtStart, readFiles, crosslinking_csv, crossed>>

schedVars == <<store, sched_csv, vpc, rows, rows_to_validate, vi, use_filter,
               schedRuns, rowsRead, invoked, exhaustedAt, lastEvent>>

crawlVars == <<remote, cpc, cyears, cmonths, cprojects, listed, cfail>>

loginVars == <<lg_max, lg_pc, lg_attempt, lg_delay, lg_sleeps, lg_fails,
               lg_session>>

sizeVars == <<sz_pc, sz_n, sz_text, sz_back>>

projVars == <<pj_pc, pj_listing, pj_projects, pj_rest, pj_fetched, pj_open,
              pj_attempt, pj_done>>

vars == <<fetchVars, searchVars, reportVars, schedVars, crawlVars, loginVars,
          sizeVars, projVars>>

\* the variables a stage leaves alone: those of the other stages
besidesFetch ==
    <<searchVars, reportVars, schedVars, crawlVars, loginVars,
      sizeVars,
      projVars>>

besidesSearch ==
    <<fetchVars, reportVars, schedVars, crawlVars, loginVars, sizeVars,
      projVars>>

besidesReport ==
    <<fetchVars, searchVars, schedVars, crawlVars, loginVars, sizeVars,
      projVars>>

besidesSched ==
    <<fetchVars, searchVars, reportVars, crawlVars, loginVars, sizeVars,
      projVars>>

besidesCrawl ==
    <<fetchVars, searchVars, reportVars, schedVars, loginVars, sizeVars,
      projVars>>

besidesLogin ==
    <<fetchVars, searchVars, reportVars, schedVars, crawlVars, sizeVars,
      projVars>>

besidesSize ==
    <<fetchVars, searchVars, reportVars, schedVars, crawlVars, loginVars,
      projVars>>

besidesProj ==
    <<fetchVars, searchVars, reportVars, schedVars, crawlVars, loginVars,
      sizeVars>>

Min(a, b) == IF a < b THEN a ELSE b

(***************************************************************************)
(* gatherMzid.py                                                           *)
(***************************************************************************)

\* classes of exception a remote command (ftplib) can raise, as fetch_file's
\* except clauses separate them:
\*   "error_perm" : ftplib.error_perm
\*   "transient"  : ConnectionResetError, OSError, EOFError, ftplib.error_temp
\*   "other"      : ftplib.error_reply, ftplib.error_proto (caught by neither)
RemoteOutcomes == {"ok", "error_perm", "transient", "other"}

\* time.time() % 1 in [0, 1): the jitter factor 2 * x - 1 in [-1, 1), in
\* thousandths
JitterFactors == {-1000, 0, 999}

\* jitter = delay * 0.1 * (2 * (time.time() % 1) - 1)
\* current_delay = min(delay + jitter, max_delay)
CurrentDelay(d, j) == Min(d + (d * j) \div 10000, MaxDelay)

\* a delay that doubles without the cap
NextDelayUncapped(d) == d * 2

\* delay = min(delay * 2, max_delay)
NextDelay(d) == Min(d * 2, MaxDelay)

\* _cleanup_partial_file: os.remove(path) if os.path.exists(path)
CleanupPartialFile(f) == IF f # "absent" THEN "absent" ELSE f

\* how fetch_file ends when get_ftp_login re-raises (line 161) an exception
\* of class cls: line 75 is outside the try block
LoginRaised(cls) ==
    CASE cls = "error_perm" -> "login_perm"
      [] cls = "transient" -> "login_transient"
      [] OTHER -> "login_other"

\* get_ftp_login(ip) as fetch_file calls it (line 75): one iteration of its
\* while loop.  ftplib.FTP(ip) and login() either give a session or raise one
\* of ftplib.all_errors, which the except clause treats alike.
LoginTry ==
    /\ fpc = "login"
    /\ \E out \in RemoteOutcomes, j \in JitterFactors :
         IF LoginMaxRetries = 0 \/ lattempt < LoginMaxRetries
         THEN IF out = "ok"
              THEN \* return ftp
                   /\ lattempt' = lattempt + 1
                   /\ ftpOpen' = ftpOpen + 1
                   /\ ftp' = "open"
                   /\ callSessions' = callSessions + 1
                   /\ fpc' = "cwd"
                   /\ UNCHANGED <<fresult, ldelay, slept>>
              ELSE IF LoginMaxRetries # 0 /\ lattempt + 1 >= LoginMaxRetries
                   THEN \* raise: the error leaves get_ftp_login and, line 75
                        \* being outside the try, fetch_file as well
                        /\ lattempt' = lattempt + 1
                        /\ fpc' = "done"
                        /\ fresult' = LoginRaised(out)
                        /\ UNCHANGED <<ftpOpen, ftp, callSessions, ldelay, slept>>
                   ELSE \* time.sleep(current_delay); delay doubles
                        /\ lattempt' = lattempt + 1
                        /\ slept' = CurrentDelay(ldelay, j)
                        /\ ldelay' = NextDelay(ldelay)
                        /\ UNCHANGED <<fpc, fresult, ftpOpen, ftp, callSessions>>
         ELSE \* line 174: raise ftplib.error_temp
              /\ fpc' = "done"
              /\ fresult' = LoginRaised("transient")
              /\ UNCHANGED <<lattempt, ftpOpen, ftp, callSessions, ldelay, slept>>
    /\ UNCHANGED <<localFile, max_retries, attempt, delay, calls, existedAtCall,
                   callRequests, transfers, transientFails, permAt, fileOpened>>

\* fetch_file lines 62-71: the existence test and the loop's initialisation
FetchCall ==
    /\ fpc \in {"idle", "done"}
    /\ calls < MaxCalls
    /\ \E mr \in 0..MaxRetriesBound :
         /\ max_retries' = mr
         /\ calls' = calls + 1
         /\ existedAtCall' = (localFile # "absent")
         /\ callSessions' = 0
         /\ callRequests' = 0
         /\ transientFails' = 0
         /\ permAt' = 0
         /\ fileOpened' = FALSE
         /\ ftp' = "none"
         /\ attempt' = 0
         /\ delay' = BaseDelay
         /\ IF localFile # "absent"
            THEN \* os.path.exists(path): return
                 /\ fpc' = "done"
                 /\ fresult' = "skipped"
            ELSE /\ fpc' = "loop"
                 /\ fresult' = "none"
    /\ UNCHANGED <<localFile, ftpOpen, slept, lattempt, ldelay, transfers>>

\* the while condition of line 73: the attempts left to fetch_file
MayAttempt(mr, a) == mr = 0 \/ a < mr

\* fetch_file lines 73-75: the loop test, attempt += 1, the call of
\* get_ftp_login; line 115 when the loop ends
FetchLoop ==
    /\ fpc = "loop"
    /\ max_retries = 0 => attempt < MaxAttemptCap
    /\ IF MayAttempt(max_retries, attempt)
       THEN /\ attempt' = attempt + 1
            /\ fileOpened' = FALSE
            /\ lattempt' = 0
            /\ ldelay' = BaseDelay
            /\ fpc' = "login"
            /\ UNCHANGED fresult
       ELSE /\ fpc' = "done"
            /\ fresult' = "exhausted"
            /\ UNCHANGED <<attempt, fileOpened, lattempt, ldelay>>
    /\ UNCHANGED <<localFile, ftpOpen, ftp, max_retries, delay, slept, calls,
                   existedAtCall, callSessions, callRequests, transfers,
                   transientFails, permAt>>

\* a handler that gives up one attempt late
GivesUpLate(mr, a) == mr # 0 /\ a > mr

\* line 103: the transient handler gives up
GivesUp(mr, a) == mr # 0 /\ a >= mr

\* a handler that retries permanent errors as well
RetriedWithPermanent(cls) == cls \in {"transient", "error_perm"}

\* line 94: the exception classes whose handler retries
Retried(cls) == cls = "transient"

\* what the except clauses of lines 84-113 do with an exception of class cls
\* raised inside the try block; the local file is f when it is raised
Handle(cls, f, j) ==
    /\ permAt' = IF cls = "error_perm" THEN attempt ELSE permAt
    /\ CASE Retried(cls) ->
              \* cleanup, quit, then raise or sleep and go round the loop
              /\ localFile' = CleanupPartialFile(f)
              /\ ftpOpen' = ftpOpen - 1
              /\ ftp' = "closed"
              /\ transientFails' = transientFails + 1
              /\ IF GivesUp(max_retries, attempt)
                 THEN /\ fpc' = "done"
                      /\ fresult' = "transient"
                      /\ UNCHANGED <<delay, slept>>
                 ELSE /\ slept' = CurrentDelay(delay, j)
                      /\ delay' = NextDelay(delay)
                      /\ fpc' = "loop"
                      /\ UNCHANGED fresult
         [] cls = "error_perm" /\ ~Retried(cls) ->
              \* cleanup, quit, raise e
              /\ localFile' = CleanupPartialFile(f)
              /\ ftpOpen' = ftpOpen - 1
              /\ ftp' = "closed"
              /\ fpc' = "done"
              /\ fresult' = "error_perm"
              /\ UNCHANGED <<delay, slept, transientFails>>
         [] OTHER ->
              \* ftplib.error_reply, ftplib.error_proto: no except clause
              \* matches, the exception leaves fetch_file with the file and
              \* the session as they are
              /\ localFile' = f
              /\ fpc' = "done"
              /\ fresult' = "other_error"
              /\ UNCHANGED <<ftpOpen, ftp, delay, slept, transientFails>>

\* line 79: ftp.cwd(ftp_dir)
FetchCwd ==
    /\ fpc = "cwd"
    /\ callRequests' = callRequests + 1
    /\ \E out \in RemoteOutcomes, j \in JitterFactors :
         IF out = "ok"
         THEN /\ fpc' = "open"
              /\ UNCHANGED <<fresult, localFile, ftpOpen, ftp, delay, slept,
                             transientFails, permAt>>
         ELSE Handle(out, localFile, j)
    /\ UNCHANGED <<max_retries, attempt, lattempt, ldelay, calls, existedAtCall,
                   callSessions, transfers, fileOpened>>

\* line 80: open(path, 'wb') creates the (empty) file, or raises OSError
FetchOpen ==
    /\ fpc = "open"
    /\ \E out \in {"ok", "transient"}, j \in JitterFactors :
         IF out = "ok"
         THEN /\ localFile' = "partial"
              /\ fileOpened' = TRUE
              /\ fpc' = "retr"
              /\ UNCHANGED <<fresult, ftpOpen, ftp, delay, slept,
                             transientFails, permAt>>
         ELSE /\ Handle(out, localFile, j)
              /\ UNCHANGED fileOpened
    /\ UNCHANGED <<max_retries, attempt, lattempt, ldelay, calls, existedAtCall,
                   callSessions, callRequests, transfers>>

\* line 81: ftp.retrbinary("RETR " + file_name, f.write); the with block
\* closes the file whether or not the transfer raised
FetchRetr ==
    /\ fpc = "retr"
    /\ callRequests' = callRequests + 1
    /\ \E out \in RemoteOutcomes, j \in JitterFactors :
         IF out = "ok"
         THEN /\ localFile' = "complete"
              /\ transfers' = transfers + 1
              /\ fpc' = "quit"
              /\ UNCHANGED <<fresult, ftpOpen, ftp, delay, slept,
                             transientFails, permAt>>
         ELSE /\ Handle(out, "partial", j)
              /\ UNCHANGED transfers
    /\ UNCHANGED <<max_retries, attempt, lattempt, ldelay, calls, existedAtCall,
                   callSessions, fileOpened>>

\* lines 82-83: ftp.quit() is still inside the try block; return
FetchQuit ==
    /\ fpc = "quit"
    /\ callRequests' = callRequests + 1
    /\ \E out \in RemoteOutcomes, j \in JitterFactors :
         IF out = "ok"
         THEN /\ ftpOpen' = ftpOpen - 1
              /\ ftp' = "closed"
              /\ fpc' = "done"
              /\ fresult' = "ok"
              /\ UNCHANGED <<localFile, delay, slept, transientFails, permAt>>
         ELSE Handle(out, localFile, j)
    /\ UNCHANGED <<max_retries, attempt, lattempt, ldelay, calls, existedAtCall,
                   callSessions, transfers, fileOpened>>

\* the process is killed while fetch_file runs: nothing of lines 84-113 is
\* executed, the file at path stays as it is, the sessions end with the
\* process
FetchKill ==
    /\ fpc \in {"loop", "login", "cwd", "open", "retr", "quit"}
    /\ fpc' = "idle"
    /\ fresult' = "killed"
    /\ ftpOpen' = 0
    /\ ftp' = "none"
    /\ UNCHANGED <<localFile, max_retries, attempt, delay, slept, lattempt,
                   ldelay, calls, existedAtCall, callSessions, callRequests,
                   transfers, transientFails, permAt, fileOpened>>

InitFetch ==
    /\ fpc = "idle"
    /\ fresult = "none"
    /\ localFile = "absent"
    /\ ftpOpen = 0
    /\ ftp = "none"
    /\ max_retries = 0
    /\ attempt = 0
    /\ delay = BaseDelay
    /\ slept = 0
    /\ lattempt = 0
    /\ ldelay = BaseDelay
    /\ calls = 0
    /\ existedAtCall = FALSE
    /\ callSessions = 0
    /\ callRequests = 0
    /\ transfers = 0
    /\ transientFails = 0
    /\ permAt = 0
    /\ fileOpened = FALSE

(***************************************************************************)
(* report.py : contains_string                                             *)
(***************************************************************************)

\* the bytes that occur in the modelled files and markers
Bytes == {"a", "b"}

\* all byte strings of length lo..hi
ByteStrings(lo, hi) == UNION {[1..n -> Bytes] : n \in lo..hi}

\* search_bytes in data
Occurs(search, data) ==
    \E i \in 1..(Len(data) - Len(search) + 1) :
        SubSeq(data, i, i + Len(search) - 1) = search

\* Python's chunk[-n:] : the last n items, the whole chunk when n = 0 or
\* n >= len(chunk)
SliceFromEnd(chunk, n) ==
    IF n = 0 \/ n >= Len(chunk)
    THEN chunk
    ELSE SubSeq(chunk, Len(chunk) - n + 1, Len(chunk))

\* a tail that forgets the previous chunk
PrevTailNone(chunk, overlap) == <<>>

\* line 86: chunk[-overlap:] if len(chunk) > overlap else chunk
PrevTail(chunk, overlap) ==
    IF Len(chunk) > overlap THEN SliceFromEnd(chunk, overlap) ELSE chunk

\* lines 78-87: the read loop, from offset pos (0-based) of the file
RECURSIVE ScanFrom(_, _, _, _, _)
ScanFrom(content, pos, prev_tail, search, chunk_size) ==
    LET chunk == SubSeq(content, pos + 1, Min(pos + chunk_size, Len(content)))
        data == prev_tail \o chunk
    IN IF chunk = <<>>
       THEN FALSE
       ELSE IF Occurs(search, data)
            THEN TRUE
            ELSE ScanFrom(content, pos + Len(chunk),
                          PrevTail(chunk, Len(search) - 1), search, chunk_size)

\* contains_string(file_path, search_string, chunk_size) on a readable file
ContainsString(content, search, chunk_size) ==
    ScanFrom(content, 0, <<>>, search, chunk_size)

SearchIdle ==
    /\ spc = "idle"
    /\ s_content = <<>>
    /\ s_search = <<>>
    /\ s_chunk = 1
    /\ s_found = FALSE

InitSearch ==
    /\ spc = "input"
    /\ s_content \in ByteStrings(0, MaxContentLen)
    /\ s_search \in ByteStrings(1, MaxMarkerLen)
    /\ s_chunk \in 1..MaxChunk
    /\ s_found = FALSE

\* one call of contains_string
Search ==
    /\ spc = "input"
    /\ s_found' = ContainsString(s_content, s_search, s_chunk)
    /\ spc' = "done"
    /\ UNCHANGED <<s_content, s_search, s_chunk>>

(***************************************************************************)
(* report.py : sizes, directories, rows                                    *)
(***************************************************************************)

RECURSIVE Pow1024(_)
Pow1024(k) == IF k = 0 THEN 1 ELSE 1024 * Pow1024(k - 1)

\* f"{x:.1f}" of x = n / u (exact in binary floating point): ten times the
\* printed number; an exact tie rounds to the even digit
RoundTenths(n, u) ==
    LET q == (10 * n) \div u
        r == (10 * n) % u
    IN IF 2 * r > u THEN q + 1
       ELSE IF 2 * r = u THEN (IF q % 2 = 0 THEN q ELSE q + 1)
       ELSE q

FormatUnits == <<"B", "KB", "MB", "GB", "TB">>

\* format_file_size: the string is modelled by the number it prints, times
\* ten, and its unit ("B" prints the integer itself)
RECURSIVE FormatFrom(_, _)
FormatFrom(n, k) ==
    IF k > Len(FormatUnits)
    THEN [num10 |-> RoundTenths(n, Pow1024(5)), unit |-> "PB"]
    ELSE IF n < Pow1024(k)
         THEN IF k = 1
              THEN [num10 |-> 10 * n, unit |-> "B"]
              ELSE [num10 |-> RoundTenths(n, Pow1024(k - 1)),
                    unit |-> FormatUnits[k]]
         ELSE FormatFrom(n, k + 1)

format_file_size(size_bytes) == FormatFrom(size_bytes, 1)

\* the directory MZID_STORE, split at "/"
StoreParts == <<"", "home", "mzid_store">>

\* int(segment): the segments that are numerals
IsNumeral(seg) == seg \in {"2017", "2018", "17", "01", "02", "13"}

IntOf(seg) ==
    CASE seg = "2017" -> 2017
      [] seg = "2018" -> 2018
      [] seg = "17" -> 17
      [] seg = "01" -> 1
      [] seg = "02" -> 2
      [] seg = "13" -> 13

\* parse_directory(dirpath): <<project, date>>, date "" when it cannot be
\* built (date.isoformat() is modelled by <<year, month, 1>>)
parse_directory(parts) ==
    IF Len(parts) >= 3
    THEN LET project == parts[Len(parts)]
             m == parts[Len(parts) - 1]
             y == parts[Len(parts) - 2]
         IN IF IsNumeral(m) /\ IsNumeral(y) /\ IntOf(m) \in 1..12
            THEN <<project,
                   <<IF IntOf(y) < 100 THEN IntOf(y) + 2000 ELSE IntOf(y),
                     IntOf(m), 1>> >>
            ELSE <<project, "">>
    ELSE <<parts, "">>

\* str.lower() on the last component of a file name
Lower(c) ==
    CASE c = "GZ" -> "gz"
      [] c = "ZIP" -> "zip"
      [] OTHER -> c

\* is_archive(filename): file names are modelled split at "."
is_archive(name) == Lower(name[Len(name)]) \in {"zip", "gz", "gzip"}

\* the marker "MS:1002511", over the modelled bytes
MS1002511 == <<"a", "b", "b">>

\* the files a mirror can hold: directory below MZID_STORE, name, size in
\* bytes, content, whether lxml parses it, declared schema version, file name
\* of the declared schema location, whether the document validates against it
FileA == [dir |-> <<"2017", "01", "PXD1">>, name |-> <<"a", "mzid">>,
          size |-> 1536, content |-> <<"b", "a", "b", "b">>,
          wellformed |-> TRUE, version |-> "1.2.0",
          schema_fname |-> "mzIdentML1.2.0.xsd", validates |-> TRUE]
FileB == [dir |-> <<"2018", "02", "PXD1">>, name |-> <<"a", "mzid">>,
          size |-> 10, content |-> <<"a", "a">>,
          wellformed |-> FALSE, version |-> "",
          schema_fname |-> "", validates |-> FALSE]
FileC == [dir |-> <<"2017", "01", "PXD2">>, name |-> <<"b", "mzid", "GZ">>,
          size |-> 2048, content |-> <<"b">>,
          wellformed |-> FALSE, version |-> "",
          schema_fname |-> "", validates |-> FALSE]
FileD == [dir |-> <<"2017", "01", "PXD2">>, name |-> <<"b", "mzid">>,
          size |-> 1048576, content |-> <<"a", "b">>,
          wellformed |-> TRUE, version |-> "",
          schema_fname |-> "", validates |-> FALSE]

Universe == {FileA, FileB, FileC, FileD}

\* the ledger file as os.walk meets it in MZID_STORE
ReportCsvFile == [dir |-> <<>>, name |-> <<"report", "csv">>, size |-> 0,
                  content |-> <<>>, wellformed |-> FALSE, version |-> "",
                  schema_fname |-> "", validates |-> FALSE]

\* the crosslinking subset file as os.walk meets it in MZID_STORE
CrosslinkingCsvFile ==
    [dir |-> <<>>, name |-> <<"all_crosslinking", "csv">>, size |-> 100,
     content |-> <<>>, wellformed |-> FALSE, version |-> "",
     schema_fname |-> "", validates |-> FALSE]

\* lines 176-183: files the walk passes over by their name
SkippedByName(f) == f.name = <<"report", "csv">> \/ is_archive(f.name)

\* the (project, file_name) pair of a file
KeyOfFile(f) == <<parse_directory(StoreParts \o f.dir)[1], f.name>>

KeyOfRow(r) == <<r.project, r.file_name>>

RowKeys(rs) == {KeyOfRow(rs[i]) : i \in 1..Len(rs)}

\* Python's str() of a bool, as csv writes it
PyStr(b) == IF b THEN "True" ELSE "False"

\* lines 186-224: the row generate_report writes for file f
RowOf(f) ==
    LET pd == parse_directory(StoreParts \o f.dir)
    IN [project |-> pd[1],
        date |-> pd[2],
        file_name |-> f.name,
        file_size |-> format_file_size(f.size),
        contains_MS1002511 |->
            PyStr(ContainsString(f.content, MS1002511, DefaultChunkSize)),
        parseable |-> PyStr(f.wellformed),
        schema_version |-> IF f.wellformed THEN f.version ELSE "",
        schema_valid |-> "",
        error_message |-> IF f.wellformed THEN "" ELSE "parse error"]

\* load_existing_report on ledger file d.  Without the header line
\* csv.DictReader takes the first data row for the field names, so
\* row["project"] raises KeyError at the next row and the except clause
\* returns the set as it is then: empty.
load_existing_report(d) ==
    IF ~d.exists THEN {}
    ELSE IF d.header THEN RowKeys(d.rows)
    ELSE {}

\* a ledger opened for writing from scratch
OpenTruncating(d) == [exists |-> TRUE, header |-> FALSE, rows |-> <<>>]

\* line 167: open(REPORT_PATH, "a") creates the file if need be and keeps
\* what it holds
OpenAppending(d) == [d EXCEPT !.exists = TRUE]

\* csvfile.flush() / close(): the buffered header and rows reach the file
Flushed(d, buf) ==
    [d EXCEPT !.header = d.header \/ buf.header, !.rows = d.rows \o buf.rows]

EmptyBuf == [header |-> FALSE, rows |-> <<>>]

(***************************************************************************)
(* report.py : generate_report                                             *)
(***************************************************************************)

\* line 174: the files os.walk(MZID_STORE) meets: the mirrored files, the
\* ledger and, when it exists, the crosslinking subset file
Walked ==
    mirror \cup {ReportCsvFile}
        \cup (IF crosslinking_csv.exists THEN {CrosslinkingCsvFile} ELSE {})

\* a download or an extraction adds a file to the mirror between two runs
AddFile ==
    /\ rpc = "idle"
    /\ \E f \in Universe \ mirror : mirror' = mirror \cup {f}
    /\ UNCHANGED <<report_csv, rpc, rbuf, existing_entries, file_exists, todo,
                   reportRuns, reportCrashes, crashed, rowsAtStart,
                   coveredAtStart, readFiles>>
    /\ crossed' = FALSE
    /\ UNCHANGED crosslinking_csv

\* lines 164-172: load the keys, open the ledger for appending, write the
\* header (into the buffer) when the file was not there
ReportStart ==
    /\ rpc = "idle"
    /\ reportRuns < MaxReportRuns
    /\ reportRuns' = reportRuns + 1
    /\ existing_entries' = load_existing_report(report_csv)
    /\ file_exists' = report_csv.exists
    /\ report_csv' = OpenAppending(report_csv)
    /\ rbuf' = [header |-> ~report_csv.exists, rows |-> <<>>]
    /\ todo' = Walked
    /\ rowsAtStart' = report_csv.rows
    /\ coveredAtStart' =
           /\ report_csv.exists
           /\ \A f \in Walked :
                  ~SkippedByName(f) => KeyOfFile(f) \in RowKeys(report_csv.rows)
    /\ readFiles' = {}
    /\ crashed' = FALSE
    /\ rpc' = "walk"
    /\ UNCHANGED <<mirror, reportCrashes>>
    /\ crossed' = FALSE
    /\ UNCHANGED crosslinking_csv

\* lines 175-224: the next file of the walk is passed over, or it is read
\* and its row is written (into the buffer)
ReportFile ==
    /\ rpc = "walk"
    /\ \E f \in todo :
         /\ todo' = todo \ {f}
         /\ IF SkippedByName(f) \/ KeyOfFile(f) \in existing_entries
            THEN UNCHANGED <<rpc, rbuf, readFiles>>
            ELSE /\ readFiles' = readFiles \cup {f}
                 /\ rbuf' = [rbuf EXCEPT !.rows = Append(@, RowOf(f))]
                 /\ rpc' = "flush"
    /\ UNCHANGED <<mirror, report_csv, existing_entries, file_exists,
                   reportRuns, reportCrashes, crashed, rowsAtStart,
                   coveredAtStart>>
    /\ crossed' = FALSE
    /\ UNCHANGED crosslinking_csv

\* line 225: csvfile.flush()
ReportFlush ==
    /\ rpc = "flush"
    /\ report_csv' = Flushed(report_csv, rbuf)
    /\ rbuf' = EmptyBuf
    /\ rpc' = "walk"
    /\ UNCHANGED <<mirror, existing_entries, file_exists, todo, reportRuns,
                   reportCrashes, crashed, rowsAtStart, coveredAtStart,
                   readFiles>>
    /\ crossed' = FALSE
    /\ UNCHANGED crosslinking_csv

\* the walk is over: the with block closes (and flushes) the file
ReportEnd ==
    /\ rpc = "walk"
    /\ todo = {}
    /\ report_csv' = Flushed(report_csv, rbuf)
    /\ rbuf' = EmptyBuf
    /\ rpc' = "idle"
    /\ UNCHANGED <<mirror, existing_entries, file_exists, todo, reportRuns,
                   reportCrashes, crashed, rowsAtStart, coveredAtStart,
                   readFiles>>
    /\ crossed' = FALSE
    /\ UNCHANGED crosslinking_csv

\* the run ends abnormally.  An exception (os.path.getsize, writerow) unwinds
\* through the with block, which closes the file and so flushes the buffer;
\* when the process is killed the buffer is lost.
ReportCrash ==
    /\ rpc \in {"walk", "flush"}
    /\ reportCrashes < MaxReportCrashes
    /\ reportCrashes' = reportCrashes + 1
    /\ \E killed \in BOOLEAN :
         report_csv' = IF killed \/ rpc = "flush"
                       THEN report_csv
                       ELSE Flushed(report_csv, rbuf)
    /\ rbuf' = EmptyBuf
    /\ crashed' = TRUE
    /\ rpc' = "idle"
    /\ UNCHANGED <<mirror, existing_entries, file_exists, todo, reportRuns,
                   rowsAtStart, coveredAtStart, readFiles>>
    /\ crossed' = FALSE
    /\ UNCHANGED crosslinking_csv

\* lines 248-250: the rows with contains_MS1002511 == "True", in their order
RECURSIVE MarkerRows(_)
MarkerRows(rs) ==
    IF rs = <<>>
    THEN <<>>
    ELSE (IF rs[1].contains_MS1002511 = "True" THEN <<rs[1]>> ELSE <<>>)
             \o MarkerRows(Tail(rs))

\* the rows csv.DictReader gives for the ledger and that line 249 can test.
\* A ledger without its header line has its first row taken for the field
\* names, and row["contains_MS1002511"] raises KeyError for the next one:
\* nothing is copied.
ReadableRows(d) == IF d.header THEN d.rows ELSE <<>>

\* lines 230-253: generate_crosslinking_report
GenerateCrosslinking ==
    /\ rpc = "idle"
    /\ IF ~report_csv.exists
       THEN \* line 234: return
            /\ crossed' = FALSE
            /\ UNCHANGED crosslinking_csv
       ELSE /\ crosslinking_csv' =
                   [exists |-> TRUE, header |-> TRUE,
                    rows |-> MarkerRows(ReadableRows(report_csv))]
            /\ crossed' = TRUE
    /\ UNCHANGED <<mirror, report_csv, rpc, rbuf, existing_entries,
                   file_exists, todo, reportRuns, reportCrashes, crashed,
                   rowsAtStart, coveredAtStart, readFiles>>

NoFile == [exists |-> FALSE, header |-> FALSE, rows |-> <<>>]

\* the ledger as a pipeline run over a mirror of FileA and FileD leaves it:
\* generate_report wrote the two rows, validate_report_schemas (lines
\* 163-168) passed over the row of FileA, which holds the marker, gave the
\* row of FileD its verdict and wrote the rows back in size order
ValidatedLedger ==
    [exists |-> TRUE, header |-> TRUE,
     rows |-> <<RowOf(FileA),
                [RowOf(FileD) EXCEPT
                    !.schema_valid = "False",
                    !.error_message =
                        "No schema location found in the XML document."]>>]

\* the subset file of that run: generate_crosslinking_report copied the row
\* of FileA and validate_crosslinking_schemas (lines 158-160) gave it its
\* verdict
ValidatedCrosslinking ==
    [exists |-> TRUE, header |-> TRUE,
     rows |-> <<[RowOf(FileA) EXCEPT !.schema_valid = "True"]>>]

ReportIdle ==
    /\ mirror = {}
    /\ report_csv = [exists |-> FALSE, header |-> FALSE, rows |-> <<>>]
    /\ rpc = "idle"
    /\ rbuf = EmptyBuf
    /\ existing_entries = {}
    /\ file_exists = FALSE
    /\ todo = {}
    /\ reportRuns = 0
    /\ reportCrashes = 0
    /\ crashed = FALSE
    /\ rowsAtStart = <<>>
    /\ coveredAtStart = FALSE
    /\ readFiles = {}
    /\ crosslinking_csv = NoFile
    /\ crossed = FALSE

\* no ledger yet and an empty mirror, or the files an earlier pipeline run
\* has left
InitReport ==
    /\ \/ /\ mirror = {}
          /\ report_csv = NoFile
          /\ crosslinking_csv = NoFile
       \/ /\ mirror = {FileA, FileD}
          /\ report_csv = ValidatedLedger
          /\ crosslinking_csv = ValidatedCrosslinking
    /\ rpc = "idle"
    /\ rbuf = EmptyBuf
    /\ existing_entries = {}
    /\ file_exists = FALSE
    /\ todo = {}
    /\ reportRuns = 0
    /\ reportCrashes = 0
    /\ crashed = FALSE
    /\ rowsAtStart = <<>>
    /\ coveredAtStart = FALSE
    /\ readFiles = {}
    /\ crossed = FALSE

(***************************************************************************)
(* schema_validate.py                                                      *)
(***************************************************************************)

SUPPORTED_SCHEMAS ==
    {"mzIdentML1.0.0.xsd", "mzIdentML1.1.0.xsd", "mzIdentML1.1.1.xsd",
     "mzIdentML1.2.0.xsd", "mzIdentML1.3.0.xsd"}

\* _extract_schema_version: the text between "mzIdentML" and ".xsd", None
\* for a file name of another shape
extract_schema_version(schema_fname) ==
    CASE schema_fname = "mzIdentML1.1.0.xsd" -> "1.1.0"
      [] schema_fname = "mzIdentML1.2.0.xsd" -> "1.2.0"
      [] schema_fname = "mzIdentML9.9.9.xsd" -> "9.9.9"
      [] OTHER -> "None"

\* a validator that loads whatever schema the document names
schema_validate_any(f) ==
    IF f.validates
    THEN <<TRUE, extract_schema_version(f.schema_fname), <<>> >>
    ELSE <<FALSE, extract_schema_version(f.schema_fname),
           <<"XML is invalid. First 20 errors:", "Error">> >>

\* _schema_validate_impl on a document that parses: <<success,
\* schema_version, messages>>.  f.schema_fname is the file name at the end of
\* the document's schema location, "" for a document without the attribute
\* and "odd" for an attribute with an odd number of parts; f.validates says
\* whether schema.validate(xml_doc) with the schema it names would succeed.
schema_validate_impl(f) ==
    IF f.schema_fname = ""
    THEN <<FALSE, "None", <<"No schema location found in the XML document.">> >>
    ELSE IF f.schema_fname = "odd"
    THEN <<FALSE, "None", <<"Invalid schema location format.">> >>
    ELSE IF f.schema_fname \notin SUPPORTED_SCHEMAS
         THEN <<FALSE, extract_schema_version(f.schema_fname),
                <<"Unsupported schema">> >>
         ELSE IF f.validates
              THEN <<TRUE, extract_schema_version(f.schema_fname), <<>> >>
              ELSE <<FALSE, extract_schema_version(f.schema_fname),
                     <<"XML is invalid. First 20 errors:", "Error">> >>

\* what can happen to the worker of Pool(1) while the caller waits in
\* async_result.get(timeout):
\*   "result"         the worker returns _schema_validate_impl's tuple
\*   "deadline"       the worker is still running at the timeout
\*   "killed"         the worker process dies (a signal, the OOM killer): the
\*                    pool starts another worker, the task is lost and no
\*                    result ever arrives
\*   another name     the worker raises that exception, which get() raises
\*                    again in the caller
WorkerEvents ==
    {"result", "deadline", "killed", "MemoryError", "TimeoutError",
     "EOFError", "OSError_ENOMEM", "XMLSyntaxError"}

\* schema_validate_with_messages(xml_file): what the call gives its caller.
\* get(timeout) raises multiprocessing.TimeoutError at the deadline; the
\* except clause of line 140 names the builtin TimeoutError, which is another
\* class, so only a builtin TimeoutError is turned into the "timed out" tuple.
schema_validate_with_messages(f, ev) ==
    CASE ev = "result" ->
           [raised |-> "", value |-> schema_validate_impl(f)]
      [] ev = "TimeoutError" ->
           [raised |-> "",
            value |-> <<FALSE, "None", <<"Validation timed out after 600s">> >>]
      [] ev \in {"deadline", "killed"} ->
           [raised |-> "multiprocessing.TimeoutError", value |-> <<>>]
      [] OTHER ->
           [raised |-> ev, value |-> <<>>]

(***************************************************************************)
(* validate_schemas.py                                                     *)
(***************************************************************************)

UnitMultiplier(unit) ==
    CASE unit = "PB" -> Pow1024(5)
      [] unit = "TB" -> Pow1024(4)
      [] unit = "GB" -> Pow1024(3)
      [] unit = "MB" -> Pow1024(2)
      [] unit = "KB" -> 1024
      [] unit = "B" -> 1

\* parse_file_size: int(float(number) * multiplier) of the unit the string
\* ends with
parse_file_size(size_str) ==
    (size_str.num10 * UnitMultiplier(size_str.unit)) \div 10

\* the files validate_schemas runs are modelled on
Sched1 == [dir |-> <<"2017", "01", "PXD1">>, name |-> <<"a", "mzid">>,
           size |-> 10, content |-> <<"a">>,
           wellformed |-> TRUE, version |-> "1.2.0",
           schema_fname |-> "mzIdentML1.2.0.xsd", validates |-> TRUE]
Sched2 == [dir |-> <<"2017", "01", "PXD2">>, name |-> <<"b", "mzid">>,
           size |-> 1024, content |-> <<"a", "b", "b">>,
           wellformed |-> TRUE, version |-> "1.1.0",
           schema_fname |-> "mzIdentML1.1.0.xsd", validates |-> FALSE]
Sched3 == [dir |-> <<"2017", "02", "PXD3">>, name |-> <<"c", "mzid">>,
           size |-> 1048576, content |-> <<"b">>,
           wellformed |-> TRUE, version |-> "9.9.9",
           schema_fname |-> "mzIdentML9.9.9.xsd", validates |-> TRUE]
Sched4 == [dir |-> <<"2017", "02", "PXD4">>, name |-> <<"d", "mzid">>,
           size |-> 1536, content |-> <<"b", "b">>,
           wellformed |-> FALSE, version |-> "",
           schema_fname |-> "", validates |-> FALSE]
Sched5 == [dir |-> <<"2018", "01", "PXD5">>, name |-> <<"e", "mzid">>,
           size |-> 10, content |-> <<"b", "a">>,
           wellformed |-> TRUE, version |-> "1.2.0",
           schema_fname |-> "", validates |-> TRUE]
Sched6 == [dir |-> <<"2018", "02", "PXD6">>, name |-> <<"f", "mzid">>,
           size |-> 2000000, content |-> <<"a", "a">>,
           wellformed |-> TRUE, version |-> "1.2.0",
           schema_fname |-> "odd", validates |-> TRUE]

SchedFiles == {Sched1, Sched2, Sched3, Sched4, Sched5, Sched6}

\* rows left in the order of the file
Unsorted(rs) == rs

\* line 71: rows.sort(key=lambda r: parse_file_size(r["file_size"])): each
\* row is put behind the rows already placed whose size is not larger
\* (list.sort is stable)
RECURSIVE SortBySize(_)
SortBySize(rs) ==
    IF rs = <<>>
    THEN <<>>
    ELSE LET front == SortBySize(SubSeq(rs, 1, Len(rs) - 1))
             r == rs[Len(rs)]
             k == Cardinality({i \in 1..Len(front) :
                      parse_file_size(front[i].file_size)
                          <= parse_file_size(r.file_size)})
         IN SubSeq(front, 1, k) \o <<r>> \o SubSeq(front, k + 1, Len(front))

\* lines 165-166: is_non_crosslinking
is_non_crosslinking(row) == row.contains_MS1002511 # "True"

\* the positions p of rs with keep(p), in ascending order
RECURSIVE PositionsFrom(_, _, _)
PositionsFrom(rs, p, filtered) ==
    IF p > Len(rs)
    THEN <<>>
    ELSE (IF ~filtered \/ is_non_crosslinking(rs[p]) THEN <<p>> ELSE <<>>)
             \o PositionsFrom(rs, p + 1, filtered)

\* a selection that takes every row, whatever filter_func says
RowsToValidateAll(rs, filtered) == PositionsFrom(rs, 1, FALSE)

\* lines 74-77: rows_to_validate, as positions in rows
RowsToValidate(rs, filtered) == PositionsFrom(rs, 1, filtered)

\* find_file_path(project, filename): a file of that name in a directory
\* whose path ends with the project (here: whose last segment is it)
FilesFound(project, filename) ==
    {f \in store : f.name = filename /\ f.dir[Len(f.dir)] = project}

\* a test that finds a memory term in every exception
HasMemoryTermAny(exc) == TRUE

\* line 136: one of the terms "kill", "memory", "oom", "signal 9",
\* "cannot allocate", "worker" occurs in str(e).lower() + type(e).__name__
\* .lower().  OSError(12, "Cannot allocate memory") has one; the empty
\* message of multiprocessing.TimeoutError and "timeouterror" have none, nor
\* has lxml's XMLSyntaxError.
HasMemoryTerm(exc) == exc = "OSError_ENOMEM"

\* a scheduler that goes on after any outcome
HaltsNever(exc) == FALSE

\* lines 111-145: the exceptions on which the run persists and returns
HaltsRun(exc) ==
    \/ exc = "MemoryError"
    \/ exc \in {"EOFError", "BrokenPipeError", "ConnectionResetError"}
    \/ HasMemoryTerm(exc)

\* "timed out" in messages[0].lower()
SaysTimedOut(message) == message = "Validation timed out after 600s"

\* lines 98-147: the row after the validator call gave call
RowAfter(row, call) ==
    IF call.raised = ""
    THEN LET schema_valid == call.value[1]
             schema_version == call.value[2]
             messages == call.value[3]
             versioned == [row EXCEPT !.schema_version =
                              IF schema_version = "None" THEN ""
                              ELSE schema_version]
         IN IF messages # <<>> /\ SaysTimedOut(messages[1])
            THEN [versioned EXCEPT !.schema_valid = "timed out",
                                   !.error_message = messages[1]]
            ELSE IF schema_valid
                 THEN [versioned EXCEPT !.schema_valid = "True",
                                        !.error_message = ""]
                 ELSE [versioned EXCEPT !.schema_valid = "False",
                                        !.error_message = messages]
    ELSE IF call.raised = "MemoryError"
         THEN [row EXCEPT !.schema_valid = "out of memory",
                          !.error_message = "Memory error"]
    ELSE IF call.raised \in {"EOFError", "BrokenPipeError",
                             "ConnectionResetError"}
         THEN [row EXCEPT !.schema_valid = "out of memory",
                          !.error_message = "Subprocess killed"]
    ELSE IF HasMemoryTerm(call.raised)
         THEN [row EXCEPT !.schema_valid = "out of memory",
                          !.error_message = "Memory/process error"]
    ELSE [row EXCEPT !.schema_valid = "False",
                     !.error_message = "Schema validation error"]

\* lines 116-119, 150-153: the file is rewritten with the header and rows
Rewritten(rs) == [exists |-> TRUE, header |-> TRUE, rows |-> rs]

\* lines 62-79: read the file, sort, filter
SchedStart ==
    /\ vpc \in {"idle", "finished", "halted", "crashed"}
    /\ schedRuns < MaxSchedRuns
    /\ schedRuns' = schedRuns + 1
    /\ IF ~sched_csv.exists
       THEN /\ vpc' = "finished"
            /\ UNCHANGED <<rows, rows_to_validate, rowsRead>>
       ELSE /\ rowsRead' = sched_csv.rows
            /\ rows' = SortBySize(sched_csv.rows)
            /\ rows_to_validate' =
                   RowsToValidate(SortBySize(sched_csv.rows), use_filter)
            /\ vpc' = "loop"
    /\ vi' = 1
    /\ invoked' = <<>>
    /\ exhaustedAt' = 0
    /\ lastEvent' = ""
    /\ UNCHANGED <<store, sched_csv, use_filter>>

\* lines 82-153: one iteration of the for loop
SchedRow ==
    /\ vpc = "loop"
    /\ vi <= Len(rows_to_validate)
    /\ LET p == rows_to_validate[vi]
           row == rows[p]
           found == FilesFound(row.project, row.file_name)
       IN IF \/ row.parseable # "True"
             \/ row.schema_valid \in {"True", "False"}
             \/ found = {}
          THEN \* continue
               /\ vi' = vi + 1
               /\ UNCHANGED <<sched_csv, vpc, rows, invoked, exhaustedAt,
                              lastEvent>>
          ELSE \E f \in found, ev \in WorkerEvents :
                 LET call == schema_validate_with_messages(f, ev)
                     updated == [rows EXCEPT ![p] = RowAfter(row, call)]
                 IN /\ rows' = updated
                    /\ invoked' = Append(invoked, p)
                    /\ lastEvent' = ev
                    /\ sched_csv' = Rewritten(updated)
                    /\ exhaustedAt' =
                           IF RowAfter(row, call).schema_valid = "out of memory"
                           THEN p ELSE exhaustedAt
                    /\ IF call.raised # "" /\ HaltsRun(call.raised)
                       THEN /\ vpc' = "halted"
                            /\ UNCHANGED vi
                       ELSE /\ vi' = vi + 1
                            /\ UNCHANGED vpc
    /\ UNCHANGED <<store, rows_to_validate, use_filter, schedRuns, rowsRead>>

\* the for loop is over
SchedEnd ==
    /\ vpc = "loop"
    /\ vi > Len(rows_to_validate)
    /\ vpc' = "finished"
    /\ UNCHANGED <<store, sched_csv, rows, rows_to_validate, vi, use_filter,
                   schedRuns, rowsRead, invoked, exhaustedAt, lastEvent>>

\* lines 116, 150: open(csv_path, "w") has emptied the file and the process
\* is killed before the writer's buffer is written out completely: the file
\* is empty, or holds the header and the first k rows
TornFiles(rs) ==
    {[exists |-> TRUE, header |-> FALSE, rows |-> <<>>]}
        \cup {[exists |-> TRUE, header |-> TRUE, rows |-> SubSeq(rs, 1, k)] :
                  k \in 0..(Len(rs) - 1)}

\* the process is killed inside the for loop: between two rewrites of the
\* file (while a validator call is waited for, too), or within the rewrite
\* that follows the validator call of a row
SchedCrash ==
    /\ vpc = "loop"
    /\ vpc' = "crashed"
    /\ \/ UNCHANGED <<sched_csv, rows, invoked, exhaustedAt, lastEvent>>
       \/ /\ vi <= Len(rows_to_validate)
          /\ LET p == rows_to_validate[vi]
                 row == rows[p]
                 found == FilesFound(row.project, row.file_name)
             IN /\ row.parseable = "True"
                /\ row.schema_valid \notin {"True", "False"}
                /\ \E f \in found, ev \in WorkerEvents :
                     LET call == schema_validate_with_messages(f, ev)
                         updated == [rows EXCEPT ![p] = RowAfter(row, call)]
                     IN /\ rows' = updated
                        /\ invoked' = Append(invoked, p)
                        /\ lastEvent' = ev
                        /\ sched_csv' \in TornFiles(updated)
                        /\ UNCHANGED exhaustedAt
    /\ UNCHANGED <<store, rows_to_validate, vi, use_filter, schedRuns,
                   rowsRead>>

SchedIdle ==
    /\ store = {}
    /\ sched_csv = [exists |-> FALSE, header |-> FALSE, rows |-> <<>>]
    /\ vpc = "idle"
    /\ rows = <<>>
    /\ rows_to_validate = <<>>
    /\ vi = 1
    /\ use_filter = FALSE
    /\ schedRuns = 0
    /\ rowsRead = <<>>
    /\ invoked = <<>>
    /\ exhaustedAt = 0
    /\ lastEvent = ""

\* the sequences of n different files
Arrangements(files, n) ==
    {a \in [1..n -> files] : \A i, j \in 1..n : i # j => a[i] # a[j]}

\* the files from the largest to the smallest
LongLedger == <<Sched6, Sched3, Sched4, Sched2, Sched5, Sched1>>

\* the subsequences of LongLedger with lo..hi files
RECURSIVE SubLedgers(_)
SubLedgers(k) ==
    IF k = 0
    THEN {<<>>}
    ELSE LET shorter == SubLedgers(k - 1)
         IN shorter \cup {Append(a, LongLedger[k]) : a \in shorter}

\* the files of 10 B, 1 KB, 1 MB and a second one of 10 B
ArrangedFiles == {Sched1, Sched2, Sched3, Sched5}

\* the ledgers the runs start from: up to MaxArranged of the ArrangedFiles in
\* every order, and the longer ledgers, up to MaxRows files, from the largest
\* file to the smallest
Ledgers ==
    UNION {Arrangements(ArrangedFiles, n) : n \in 1..MaxArranged}
        \cup {a \in SubLedgers(Len(LongLedger)) :
                  Len(a) > MaxArranged /\ Len(a) <= MaxRows}

\* a ledger as the report stage leaves it (a row per file, in the order of
\* its walk, no verdict yet), a mirror that holds these files, one of them
\* possibly gone since, and whether the runs on this file filter its rows
\* (validate_report_schemas, lines 163-168) or not
\* (validate_crosslinking_schemas, lines 158-160)
InitSched ==
    /\ \E a \in Ledgers :
         /\ sched_csv = [exists |-> TRUE, header |-> TRUE,
                         rows |-> [i \in 1..Len(a) |-> RowOf(a[i])]]
         /\ \E gone \in SUBSET {Sched6} :
                store = {a[i] : i \in 1..Len(a)} \ gone
    /\ vpc = "idle"
    /\ rows = <<>>
    /\ rows_to_validate = <<>>
    /\ vi = 1
    /\ use_filter \in BOOLEAN
    /\ schedRuns = 0
    /\ rowsRead = <<>>
    /\ invoked = <<>>
    /\ exhaustedAt = 0
    /\ lastEvent = ""

(***************************************************************************)
(* gatherMzid.py : the walk over the archive                               *)
(***************************************************************************)

\* the names a listing gives: "1", "2", ...; a directory is the sequence of
\* the names on the way to it from base
Children(dir, n) == [i \in 1..n |-> Append(dir, i)]

\* how many entries the directory dir has
EntriesOf(dir) ==
    CASE Len(dir) = 0 -> remote.years
      [] Len(dir) = 1 -> remote.months
      [] Len(dir) = 2 -> remote.projects
      [] OTHER -> 0

\* get_ftp_file_list(ip, dir), lines 176-194: what the call does.
\*   "ok"          nlst() returns the names
\*   "no_entries"  nlst() raises error_perm "550 No files found" (the reply
\*                 of some servers for a directory without entries): logged
\*                 at line 189, raised again at line 192
\*   "error_perm"  cwd or nlst raises another error_perm: raised again at
\*                 line 184 or 192
\*   "transient"   get_ftp_login, cwd or nlst raises another error, which no
\*                 clause catches
ListOutcomes(dir) ==
    {"ok", "error_perm", "transient"}
        \cup (IF EntriesOf(dir) = 0 THEN {"no_entries"} ELSE {})

NoFailure == [kind |-> "", dir |-> <<>>]

\* no function of the walk has a try statement: an exception raised in a
\* listing leaves fetch_month, fetch_year and all_years at once
Raised(kind, dir) ==
    /\ cpc' = "raised"
    /\ cfail' = [kind |-> kind, dir |-> dir]

\* lines 18-20: all_years lists base
CrawlStart ==
    /\ cpc = "idle"
    /\ listed' = Append(listed, <<>>)
    /\ \E out \in ListOutcomes(<<>>) :
         IF out = "ok"
         THEN /\ cyears' = Children(<<>>, remote.years)
              /\ cpc' = "walk"
              /\ UNCHANGED cfail
         ELSE /\ Raised(out, <<>>)
              /\ UNCHANGED cyears
    /\ UNCHANGED <<remote, cmonths, cprojects>>

\* lines 20-26: the next f of all_years, fetch_year(f) lists it
CrawlYear ==
    /\ cpc = "walk"
    /\ cprojects = <<>> /\ cmonths = <<>> /\ cyears # <<>>
    /\ cyears' = Tail(cyears)
    /\ listed' = Append(listed, Head(cyears))
    /\ \E out \in ListOutcomes(Head(cyears)) :
         IF out = "ok"
         THEN /\ cmonths' = Children(Head(cyears), remote.months)
              /\ UNCHANGED <<cpc, cfail>>
         ELSE /\ Raised(out, Head(cyears))
              /\ UNCHANGED cmonths
    /\ UNCHANGED <<remote, cprojects>>

\* lines 27-32: the next f of fetch_year, fetch_month lists it
CrawlMonth ==
    /\ cpc = "walk"
    /\ cprojects = <<>> /\ cmonths # <<>>
    /\ cmonths' = Tail(cmonths)
    /\ listed' = Append(listed, Head(cmonths))
    /\ \E out \in ListOutcomes(Head(cmonths)) :
         IF out = "ok"
         THEN /\ cprojects' = Children(Head(cmonths), remote.projects)
              /\ UNCHANGED <<cpc, cfail>>
         ELSE /\ Raised(out, Head(cmonths))
              /\ UNCHANGED cprojects
    /\ UNCHANGED <<remote, cyears>>

\* lines 33-60: the next f of fetch_month, fetch_project(ymp): log in, cwd,
\* LIST, quit, fetch_file for the selected lines; an error of the session or
\* one that fetch_file raises leaves the walk
CrawlProject ==
    /\ cpc = "walk"
    /\ cprojects # <<>>
    /\ cprojects' = Tail(cprojects)
    /\ listed' = Append(listed, Head(cprojects))
    /\ \E out \in {"ok", "error_perm", "transient"} :
         IF out = "ok"
         THEN UNCHANGED <<cpc, cfail>>
         ELSE Raised(out, Head(cprojects))
    /\ UNCHANGED <<remote, cyears, cmonths>>

\* line 21 after the last year: all_years returns
CrawlEnd ==
    /\ cpc = "walk"
    /\ cprojects = <<>> /\ cmonths = <<>> /\ cyears = <<>>
    /\ cpc' = "done"
    /\ UNCHANGED <<remote, cyears, cmonths, cprojects, listed, cfail>>

CrawlIdle ==
    /\ remote = [years |-> 0, months |-> 0, projects |-> 0]
    /\ cpc = "idle"
    /\ cyears = <<>>
    /\ cmonths = <<>>
    /\ cprojects = <<>>
    /\ listed = <<>>
    /\ cfail = NoFailure

InitCrawl ==
    /\ remote \in [years : 0..MaxYears, months : 0..MaxMonths,
                    projects : 0..MaxProjects]
    /\ cpc = "idle"
    /\ cyears = <<>>
    /\ cmonths = <<>>
    /\ cprojects = <<>>
    /\ listed = <<>>
    /\ cfail = NoFailure

(***************************************************************************)
(* gatherMzid.py : get_ftp_login                                           *)
(***************************************************************************)

\* line 145: while max_retries == 0 or attempt < max_retries
LoginMayAttempt(mr, a) == mr = 0 \/ a < mr

\* a login that gives up one attempt later
LoginGivesUpLate(mr, a) == mr # 0 /\ a > mr

\* line 159: if max_retries != 0 and attempt >= max_retries: raise
LoginGivesUp(mr, a) == mr # 0 /\ a >= mr

\* lines 142-143: get_ftp_login(ip, max_retries) is called
LoginCall ==
    /\ lg_pc = "idle"
    /\ lg_pc' = "loop"
    /\ lg_attempt' = 0
    /\ lg_delay' = BaseDelay
    /\ UNCHANGED <<lg_max, lg_sleeps, lg_fails, lg_session>>

\* lines 145-171: one iteration of the while loop.  ftplib.FTP(ip) and
\* login() give a session or raise one of ftplib.all_errors
LoginAttempt ==
    /\ lg_pc = "loop"
    /\ LoginMayAttempt(lg_max, lg_attempt)
    /\ lg_attempt < MaxLoginAttempts
    /\ lg_attempt' = lg_attempt + 1
    /\ \E ok \in BOOLEAN, j \in JitterFactors :
         IF ok
         THEN \* line 155: return ftp
              /\ lg_pc' = "returned"
              /\ lg_session' = "logged_in"
              /\ UNCHANGED <<lg_delay, lg_sleeps, lg_fails>>
         ELSE /\ lg_fails' = lg_fails + 1
              /\ IF LoginGivesUp(lg_max, lg_attempt + 1)
                 THEN \* line 161: raise
                      /\ lg_pc' = "raised"
                      /\ UNCHANGED <<lg_delay, lg_sleeps, lg_session>>
                 ELSE \* lines 164-170: sleep, then double the delay
                      /\ lg_sleeps' =
                             Append(lg_sleeps, CurrentDelay(lg_delay, j))
                      /\ lg_delay' = NextDelay(lg_delay)
                      /\ UNCHANGED <<lg_pc, lg_session>>
    /\ UNCHANGED lg_max

\* line 174: the loop condition is false, raise ftplib.error_temp
LoginExhausted ==
    /\ lg_pc = "loop"
    /\ ~LoginMayAttempt(lg_max, lg_attempt)
    /\ lg_pc' = "raised"
    /\ UNCHANGED <<lg_max, lg_attempt, lg_delay, lg_sleeps, lg_fails,
                   lg_session>>

LoginIdle ==
    /\ lg_max = 0
    /\ lg_pc = "idle"
    /\ lg_attempt = 0
    /\ lg_delay = BaseDelay
    /\ lg_sleeps = <<>>
    /\ lg_fails = 0
    /\ lg_session = "none"

\* max_retries is any int: 0 for no bound, a bound, or a negative number
InitLogin ==
    /\ lg_max \in (-1)..MaxLoginRetries
    /\ lg_pc = "idle"
    /\ lg_attempt = 0
    /\ lg_delay = BaseDelay
    /\ lg_sleeps = <<>>
    /\ lg_fails = 0
    /\ lg_session = "none"

(***************************************************************************)
(* format_file_size followed by parse_file_size                            *)
(***************************************************************************)

\* the sizes the round trip is applied to: every size up to MaxSize bytes,
\* and the multiples of 1 KB up to MaxSize KB
SizeInputs == (0..MaxSize) \cup {1024 * n : n \in 0..MaxSize}

\* report.py line 217 and validate_schemas.py line 71: the size is written
\* to the ledger by format_file_size and read back by parse_file_size
RoundTrip ==
    /\ sz_pc = "idle"
    /\ sz_pc' = "done"
    /\ sz_text' = format_file_size(sz_n)
    /\ sz_back' = parse_file_size(format_file_size(sz_n))
    /\ UNCHANGED sz_n

SizeIdle ==
    /\ sz_pc = "idle"
    /\ sz_n = 0
    /\ sz_text = [num10 |-> 0, unit |-> "B"]
    /\ sz_back = 0

InitSize ==
    /\ sz_pc = "idle"
    /\ sz_n \in SizeInputs
    /\ sz_text = [num10 |-> 0, unit |-> "B"]
    /\ sz_back = 0

(***************************************************************************)
(* gatherMzid.py : fetch_month, fetch_project, and the sessions they open  *)
(***************************************************************************)

\* lines of a LIST reply: the type flag, the owner field, the number of
\* whitespace-separated fields of the line, the file name split at "."
Line1 == [flag |-> "-", owner |-> "ftp", fields |-> 9, name |-> <<"a", "mzid">>]
Line2 == [flag |-> "-", owner |-> "ftp", fields |-> 9, name |-> <<"B", "MZID">>]
Line3 == [flag |-> "-", owner |-> "ftp", fields |-> 9,
          name |-> <<"c", "mzid", "MGF">>]
Line4 == [flag |-> "d", owner |-> "ftp", fields |-> 9, name |-> <<"mzid">>]
Line5 == [flag |-> "-", owner |-> "mzid", fields |-> 9, name |-> <<"d", "xml">>]
Line6 == [flag |-> "-", owner |-> "ftp", fields |-> 9, name |-> <<"e", "xml">>]
\* a server that leaves out the group column
Line7 == [flag |-> "-", owner |-> "ftp", fields |-> 8, name |-> <<"f", "mzid">>]

ListLines == {Line1, Line2, Line3, Line4, Line5, Line6, Line7}

\* str.lower() on the modelled words
LowerWord(w) ==
    CASE w = "MZID" -> "mzid"
      [] w = "MGF" -> "mgf"
      [] w = "B" -> "b"
      [] OTHER -> w

\* 'mzid' in text.lower(), for a name split at "."
NameHasMzid(name) == \E i \in 1..Len(name) : LowerWord(name[i]) = "mzid"

\* line 50: 'mzid' in line.lower() looks at the whole line, owner included
LineHasMzid(line) == NameHasMzid(line.name) \/ LowerWord(line.owner) = "mzid"

\* line 57: filename.lower().endswith('.mgf')
EndsWithMgf(name) == Len(name) >= 2 /\ LowerWord(name[Len(name)]) = "mgf"

\* lines 50-58: the lines whose file name is passed to fetch_file
Selects(line) ==
    /\ line.flag = "-"
    /\ LineHasMzid(line)
    /\ line.fields >= 9
    /\ ~EndsWithMgf(line.name)

\* how a remote session stands after fetch_file's try statement (lines
\* 78-113) met outcome out: quit at line 82, 88 or 98; no clause for "other"
SessionsKept(out, n) == n

SessionsAfter(out, n) == IF out = "other" THEN n ELSE n - 1

\* the process ends with the exception: no function of the walk and no
\* caller has a try statement around these calls
ProjRaised == pj_pc' = "raised"

\* lines 30-32 and 178: fetch_month calls get_ftp_file_list, which logs in
MonthLogin ==
    /\ pj_pc = "idle"
    /\ \E ok \in BOOLEAN :
         IF ok
         THEN pj_pc' = "month_session" /\ pj_open' = pj_open + 1
         ELSE ProjRaised /\ UNCHANGED pj_open
    /\ UNCHANGED <<pj_listing, pj_projects, pj_rest, pj_fetched, pj_attempt,
                   pj_done>>

\* lines 179-194: cwd and nlst.
\*   "ok"        nlst returns, finally: ftp.close()
\*   "cwd_perm"  cwd raises error_perm: ftp.quit(), raise e
\*   "cwd_other" cwd raises another error: no clause, the session is left
\*   "nlst"      nlst raises: finally: ftp.close(), the error goes on
MonthList ==
    /\ pj_pc = "month_session"
    /\ \E out \in {"ok", "cwd_perm", "cwd_other", "nlst"},
          n \in 1..MaxSiblings :
         CASE out = "ok" ->
                /\ pj_open' = pj_open - 1
                /\ pj_projects' = [i \in 1..n |-> i]
                /\ pj_pc' = "next"
           [] out = "cwd_other" ->
                /\ ProjRaised
                /\ UNCHANGED <<pj_open, pj_projects>>
           [] OTHER ->
                /\ pj_open' = pj_open - 1
                /\ ProjRaised
                /\ UNCHANGED pj_projects
    /\ UNCHANGED <<pj_listing, pj_rest, pj_fetched, pj_attempt, pj_done>>

\* lines 33-39: the next f of fetch_month; fetch_project logs in
ProjLogin ==
    /\ pj_pc = "next"
    /\ pj_projects # <<>>
    /\ pj_fetched' = <<>>
    /\ \E ok \in BOOLEAN :
         IF ok
         THEN pj_pc' = "proj_session" /\ pj_open' = pj_open + 1
         ELSE ProjRaised /\ UNCHANGED pj_open
    /\ UNCHANGED <<pj_listing, pj_projects, pj_rest, pj_attempt, pj_done>>

\* lines 40-46: cwd, retrlines('LIST'), quit, none of them in a try
\* statement: an error of any of them leaves the session as it is
ProjList ==
    /\ pj_pc = "proj_session"
    /\ \E ok \in BOOLEAN :
         IF ok
         THEN /\ pj_open' = pj_open - 1
              /\ pj_rest' = pj_listing
              /\ pj_pc' = "lines"
         ELSE /\ ProjRaised
              /\ UNCHANGED <<pj_open, pj_rest>>
    /\ UNCHANGED <<pj_listing, pj_projects, pj_fetched, pj_attempt, pj_done>>

\* lines 48-67: the next line of listing; fetch_file for a selected one, which
\* returns at once when the path exists
ProjLine ==
    /\ pj_pc = "lines"
    /\ pj_rest # <<>>
    /\ pj_rest' = Tail(pj_rest)
    /\ IF Selects(Head(pj_rest))
       THEN /\ pj_fetched' = Append(pj_fetched, Head(pj_rest).name)
            /\ pj_attempt' = 0
            /\ \E exists \in BOOLEAN :
                 pj_pc' = IF exists THEN "lines" ELSE "file_loop"
       ELSE UNCHANGED <<pj_fetched, pj_attempt, pj_pc>>
    /\ UNCHANGED <<pj_listing, pj_projects, pj_open, pj_done>>

\* lines 73-75: fetch_file's next attempt logs in (max_retries = 0)
FileLogin ==
    /\ pj_pc = "file_loop"
    /\ pj_attempt < MaxFileAttempts
    /\ pj_attempt' = pj_attempt + 1
    /\ \E ok \in BOOLEAN :
         IF ok
         THEN pj_pc' = "file_session" /\ pj_open' = pj_open + 1
         ELSE ProjRaised /\ UNCHANGED pj_open
    /\ UNCHANGED <<pj_listing, pj_projects, pj_rest, pj_fetched, pj_done>>

\* lines 78-113: the try statement of the attempt
FileTry ==
    /\ pj_pc = "file_session"
    /\ \E out \in RemoteOutcomes :
         /\ pj_open' = SessionsAfter(out, pj_open)
         /\ pj_pc' = CASE out = "ok" -> "lines"
                       [] out = "transient" -> "file_loop"
                       [] OTHER -> "raised"
    /\ UNCHANGED <<pj_listing, pj_projects, pj_rest, pj_fetched, pj_attempt,
                   pj_done>>

\* line 60 after the last line: fetch_project returns to fetch_month
ProjReturn ==
    /\ pj_pc = "lines"
    /\ pj_rest = <<>>
    /\ pj_projects' = Tail(pj_projects)
    /\ pj_done' = pj_done + 1
    /\ pj_pc' = "next"
    /\ UNCHANGED <<pj_listing, pj_rest, pj_fetched, pj_open, pj_attempt>>

\* line 35 after the last project: fetch_month returns
MonthReturn ==
    /\ pj_pc = "next"
    /\ pj_projects = <<>>
    /\ pj_pc' = "done"
    /\ UNCHANGED <<pj_listing, pj_projects, pj_rest, pj_fetched, pj_open,
                   pj_attempt, pj_done>>

ProjIdle ==
    /\ pj_pc = "idle"
    /\ pj_listing = <<>>
    /\ pj_projects = <<>>
    /\ pj_rest = <<>>
    /\ pj_fetched = <<>>
    /\ pj_open = 0
    /\ pj_attempt = 0
    /\ pj_done = 0

\* the listings of up to MaxLines different lines, in any order
Listings ==
    UNION {{l \in [1..n -> ListLines] :
                \A i, j \in 1..n : i # j => l[i] # l[j]} : n \in 0..MaxLines}

InitProj ==
    /\ pj_pc = "idle"
    /\ pj_listing \in Listings
    /\ pj_projects = <<>>
    /\ pj_rest = <<>>
    /\ pj_fetched = <<>>
    /\ pj_open = 0
    /\ pj_attempt = 0
    /\ pj_done = 0

(***************************************************************************)
(* Specifications                                                          *)
(***************************************************************************)

Init ==
    InitFetch /\ SearchIdle /\ ReportIdle /\ SchedIdle /\ CrawlIdle
        /\ LoginIdle /\ SizeIdle /\ ProjIdle

Next ==
    \/ FetchCall /\ UNCHANGED besidesFetch
    \/ FetchLoop /\ UNCHANGED besidesFetch
    \/ LoginTry /\ UNCHANGED besidesFetch
    \/ FetchCwd /\ UNCHANGED besidesFetch
    \/ FetchOpen /\ UNCHANGED besidesFetch
    \/ FetchRetr /\ UNCHANGED besidesFetch
    \/ FetchQuit /\ UNCHANGED besidesFetch

\* the downloader: fetch_file called up to MaxCalls times for one target
Spec == Init /\ [][Next]_vars

NextKilled ==
    \/ FetchCall /\ UNCHANGED besidesFetch
    \/ FetchLoop /\ UNCHANGED besidesFetch
    \/ LoginTry /\ UNCHANGED besidesFetch
    \/ FetchCwd /\ UNCHANGED besidesFetch
    \/ FetchOpen /\ UNCHANGED besidesFetch
    \/ FetchRetr /\ UNCHANGED besidesFetch
    \/ FetchQuit /\ UNCHANGED besidesFetch
    \/ FetchKill /\ UNCHANGED besidesFetch

\* the downloader run up to MaxCalls times for one target, each run possibly
\* killed
SpecKilled == Init /\ [][NextKilled]_vars

InitSearchStage ==
    InitFetch /\ InitSearch /\ ReportIdle /\ SchedIdle /\ CrawlIdle
        /\ LoginIdle /\ SizeIdle /\ ProjIdle

NextSearch == Search /\ UNCHANGED besidesSearch

\* contains_string applied to every bounded input
SpecSearch == InitSearchStage /\ [][NextSearch]_vars

InitReportStage ==
    InitFetch /\ SearchIdle /\ InitReport /\ SchedIdle /\ CrawlIdle
        /\ LoginIdle /\ SizeIdle /\ ProjIdle

NextReportStage ==
    \/ AddFile /\ UNCHANGED besidesReport
    \/ ReportStart /\ UNCHANGED besidesReport
    \/ ReportFile /\ UNCHANGED besidesReport
    \/ ReportFlush /\ UNCHANGED besidesReport
    \/ ReportEnd /\ UNCHANGED besidesReport
    \/ ReportCrash /\ UNCHANGED besidesReport
    \/ GenerateCrosslinking /\ UNCHANGED besidesReport

\* generate_report run up to MaxReportRuns times over a growing mirror
SpecReport == InitReportStage /\ [][NextReportStage]_vars

InitSchedStage ==
    InitFetch /\ SearchIdle /\ ReportIdle /\ InitSched /\ CrawlIdle
        /\ LoginIdle /\ SizeIdle /\ ProjIdle

NextSchedStage ==
    \/ SchedStart /\ UNCHANGED besidesSched
    \/ SchedRow /\ UNCHANGED besidesSched
    \/ SchedEnd /\ UNCHANGED besidesSched

\* validate_schemas run up to MaxSchedRuns times on one ledger
SpecSched == InitSchedStage /\ [][NextSchedStage]_vars

\* a ledger of up to MaxArranged of the ArrangedFiles in any order, all of
\* them in the mirror
InitSchedShort ==
    /\ \E n \in 1..MaxArranged : \E a \in Arrangements(ArrangedFiles, n) :
         /\ sched_csv = [exists |-> TRUE, header |-> TRUE,
                         rows |-> [i \in 1..Len(a) |-> RowOf(a[i])]]
         /\ store = {a[i] : i \in 1..Len(a)}
    /\ vpc = "idle"
    /\ rows = <<>>
    /\ rows_to_validate = <<>>
    /\ vi = 1
    /\ use_filter \in BOOLEAN
    /\ schedRuns = 0
    /\ rowsRead = <<>>
    /\ invoked = <<>>
    /\ exhaustedAt = 0
    /\ lastEvent = ""

InitSchedCrashStage ==
    InitFetch /\ SearchIdle /\ ReportIdle /\ InitSchedShort /\ CrawlIdle
        /\ LoginIdle /\ SizeIdle /\ ProjIdle

NextSchedCrashStage ==
    \/ SchedStart /\ UNCHANGED besidesSched
    \/ SchedRow /\ UNCHANGED besidesSched
    \/ SchedEnd /\ UNCHANGED besidesSched
    \/ SchedCrash /\ UNCHANGED besidesSched

\* validate_schemas run up to MaxSchedRuns times on one ledger, each run
\* possibly killed
SpecSchedCrash == InitSchedCrashStage /\ [][NextSchedCrashStage]_vars

InitCrawlStage ==
    InitFetch /\ SearchIdle /\ ReportIdle /\ SchedIdle /\ InitCrawl
        /\ LoginIdle /\ SizeIdle /\ ProjIdle

NextCrawlStage ==
    \/ CrawlStart /\ UNCHANGED besidesCrawl
    \/ CrawlYear /\ UNCHANGED besidesCrawl
    \/ CrawlMonth /\ UNCHANGED besidesCrawl
    \/ CrawlProject
           /\ UNCHANGED besidesCrawl
    \/ CrawlEnd /\ UNCHANGED besidesCrawl

\* all_years over an archive of up to MaxYears years
SpecCrawl == InitCrawlStage /\ [][NextCrawlStage]_vars

InitLoginStage ==
    InitFetch /\ SearchIdle /\ ReportIdle /\ SchedIdle /\ CrawlIdle
        /\ InitLogin /\ SizeIdle /\ ProjIdle

NextLoginStage ==
    \/ LoginCall
           /\ UNCHANGED besidesLogin
    \/ LoginAttempt
           /\ UNCHANGED besidesLogin
    \/ LoginExhausted
           /\ UNCHANGED besidesLogin

\* get_ftp_login called with max_retries in -1..MaxLoginRetries
SpecLogin == InitLoginStage /\ [][NextLoginStage]_vars

InitSizeStage ==
    InitFetch /\ SearchIdle /\ ReportIdle /\ SchedIdle /\ CrawlIdle
        /\ LoginIdle /\ InitSize /\ ProjIdle

NextSizeStage ==
    RoundTrip
        /\ UNCHANGED besidesSize

\* format_file_size and parse_file_size applied to every size of SizeInputs
SpecSize == InitSizeStage /\ [][NextSizeStage]_vars

InitProjStage ==
    InitFetch /\ SearchIdle /\ ReportIdle /\ SchedIdle /\ CrawlIdle
        /\ LoginIdle /\ SizeIdle /\ InitProj

NextProjStage ==
    \/ MonthLogin /\ UNCHANGED besidesProj
    \/ MonthList /\ UNCHANGED besidesProj
    \/ ProjLogin /\ UNCHANGED besidesProj
    \/ ProjList /\ UNCHANGED besidesProj
    \/ ProjLine /\ UNCHANGED besidesProj
    \/ FileLogin /\ UNCHANGED besidesProj
    \/ FileTry /\ UNCHANGED besidesProj
    \/ ProjReturn /\ UNCHANGED besidesProj
    \/ MonthReturn /\ UNCHANGED besidesProj

\* fetch_month over up to MaxSiblings projects whose LIST reply is any of
\* Listings
SpecProj == InitProjStage /\ [][NextProjStage]_vars

(***************************************************************************)
(* Claims about the downloader                                             *)
(***************************************************************************)

\* C1 (as claimed): when fetch_file has ended after a transient or permanent
\* failure of an attempt that had opened the local file, the target path does
\* not exist; and whenever fetch_file has ended, the path holds the complete
\* file or no file, never a truncated one.
C1_NoPartialFile ==
    fpc = "done" =>
        /\ (fresult \in {"error_perm", "transient"} /\ fileOpened)
               => localFile = "absent"
        /\ localFile \in {"absent", "complete"}

\* C2 (as claimed): a call that finds the target path present returns at once,
\* opens no session and issues no remote command; and two calls for the same
\* target transfer the file at most once.
C2_Idempotent ==
    /\ (fpc = "done" /\ existedAtCall) =>
           /\ fresult = "skipped"
           /\ callSessions = 0
           /\ callRequests = 0
    /\ calls <= 2 => transfers <= 1

C8_ChunkedSearchCorrect ==
    spc = "done" => (s_found <=> Occurs(s_search, s_content))

(***************************************************************************)
(* Claims about the report ledger                                          *)
(***************************************************************************)

\* C5 (as claimed): a generate_report run that starts with a ledger holding a
\* row for every reportable file of the mirror appends no row and leaves the
\* rows on disk as they were; and no run reads a file whose (project,
\* file_name) key was in the ledger when the run started.
C5_LedgerIdempotent ==
    /\ coveredAtStart => (report_csv.rows = rowsAtStart /\ rbuf.rows = <<>>)
    /\ \A f \in readFiles : KeyOfFile(f) \notin RowKeys(rowsAtStart)

\* C6 (as claimed): no two rows of the ledger have the same (project,
\* file_name) pair.
C6_KeyUnique ==
    \A i, j \in 1..Len(report_csv.rows) :
        i # j => KeyOfRow(report_csv.rows[i]) # KeyOfRow(report_csv.rows[j])

IsPrefix(a, b) == Len(a) <= Len(b) /\ SubSeq(b, 1, Len(a)) = a

\* C7: no step of the report stage, a crash included, removes or changes a
\* row that is on disk (rows of earlier runs and rows flushed by this run
\* stay where they are), and a crash finds at most one row written but not
\* yet flushed.
C7_CrashSafe ==
    [][/\ IsPrefix(report_csv.rows, report_csv'.rows)
       /\ (crashed' /\ ~crashed) => Len(rbuf.rows) <= 1]_vars

\* a second run is killed between writerow and flush: the rows of the first
\* run and the row this run had flushed are on disk, one row is lost
C7_Witness ==
    /\ crashed
    /\ reportRuns = 2
    /\ Len(rowsAtStart) >= 1
    /\ Len(report_csv.rows) = Len(rowsAtStart) + 1
    /\ Cardinality(readFiles) = 2

(***************************************************************************)
(* Claims about the validation scheduler                                   *)
(***************************************************************************)

\* the size in bytes the scheduler reads from the row at position p of rows
SizeAt(p) == parse_file_size(rows[p].file_size)

\* the file names of the rows the validator was invoked on, in that order
InvokedNames == [i \in 1..Len(invoked) |-> rows[invoked[i]].file_name]

\* C9: within one validate_schemas run the validator is invoked on rows in
\* non-decreasing order of parse_file_size(file_size), whatever the order of
\* the rows in the file and with or without a filter; a file that holds the
\* rows of 10 B, 1 KB and 1 MB in any order, run without a filter to its
\* end, has them validated in exactly that order.
C9_SizeAscending ==
    /\ \A i, j \in 1..Len(invoked) :
           i < j => SizeAt(invoked[i]) <= SizeAt(invoked[j])
    /\ ( /\ vpc = "finished"
         /\ schedRuns = 1
         /\ ~use_filter
         /\ Len(rowsRead) = 3
         /\ {rowsRead[i] : i \in 1..3}
                = {RowOf(Sched1), RowOf(Sched2), RowOf(Sched3)} )
       => InvokedNames = <<Sched1.name, Sched2.name, Sched3.name>>

\* the file lists 1 MB, 10 B, 1 KB in that order and all three were validated
C9_Witness ==
    /\ vpc = "finished"
    /\ schedRuns = 1
    /\ ~use_filter
    /\ rowsRead = <<RowOf(Sched3), RowOf(Sched1), RowOf(Sched2)>>
    /\ Len(invoked) = 3

\* the rows as the run sorted them when it started
SortedAtStart == SortBySize(rowsRead)

\* lines 83-94: the run will call the validator for this row
Pending(row) ==
    /\ row.parseable = "True"
    /\ row.schema_valid \notin {"True", "False"}
    /\ FilesFound(row.project, row.file_name) # {}

\* the positions of rows whose row differs from the one the run read
UpdatedRows == {p \in 1..Len(rows) : rows[p] # SortedAtStart[p]}

\* C10: once a validator call of the run has ended in a resource-exhaustion
\* outcome, that row's verdict is "out of memory", the ledger on disk holds
\* it and the verdicts of all rows validated earlier in the run, the run has
\* ended and that call is its last one: every row it was not invoked on is as
\* it was read.  When the exhausted row is the second of five pending rows
\* with no verdict, exactly two rows are updated and the other three keep an
\* empty verdict.
C10_ExhaustionHalts ==
    exhaustedAt # 0 =>
        /\ vpc = "halted"
        /\ rows[exhaustedAt].schema_valid = "out of memory"
        /\ sched_csv = Rewritten(rows)
        /\ \A i \in 1..Len(invoked) :
               sched_csv.rows[invoked[i]].schema_valid
                   \in {"True", "False", "timed out", "out of memory"}
        /\ invoked # <<>> /\ invoked[Len(invoked)] = exhaustedAt
        /\ rows_to_validate[vi] = exhaustedAt
        /\ \A p \in 1..Len(rows) :
               (\A i \in 1..Len(invoked) : invoked[i] # p)
                   => rows[p] = SortedAtStart[p]
        /\ ( /\ Len(rows_to_validate) = 5
             /\ \A i \in 1..5 :
                   /\ Pending(SortedAtStart[rows_to_validate[i]])
                   /\ SortedAtStart[rows_to_validate[i]].schema_valid = ""
             /\ exhaustedAt = rows_to_validate[2] )
           => /\ Cardinality(UpdatedRows) = 2
              /\ \A i \in 3..5 : rows[rows_to_validate[i]].schema_valid = ""

\* five pending rows without a verdict, the validator of the second one is
\* killed: two calls were made, three rows are still without a verdict
C10_Witness ==
    /\ vpc = "halted"
    /\ schedRuns = 1
    /\ Len(rows_to_validate) = 5
    /\ \A i \in 1..5 : Pending(SortedAtStart[rows_to_validate[i]])
    /\ exhaustedAt = rows_to_validate[2]
    /\ Len(invoked) = 2
    /\ Cardinality({p \in 1..Len(rows) : sched_csv.rows[p].schema_valid = ""})
           = 3

\* the row of the run's latest validator call
LastInvokedRow == rows[invoked[Len(invoked)]]

\* C11 (as claimed): when the worker of a validator call is still running at
\* the timeout, the row of that call gets the verdict "timed out", the
\* ledger holds it, and the run goes on with the next row.
C11_TimeoutRecorded ==
    lastEvent = "deadline" =>
        /\ LastInvokedRow.schema_valid = "timed out"
        /\ sched_csv = Rewritten(rows)
        /\ vpc # "halted"

\* C12 (as claimed): when the worker process of a validator call dies before
\* it responds, the row of that call gets the verdict "out of memory" and
\* the run halts.
C12_WorkerDeathHalts ==
    lastEvent = "killed" =>
        /\ LastInvokedRow.schema_valid = "out of memory"
        /\ sched_csv = Rewritten(rows)
        /\ vpc = "halted"

\* C13 (as claimed): when a validate_schemas run has crashed, the ledger
\* file has its header and a row for every row read at the start of the run,
\* and every row whose validation and rewrite completed before the crash is
\* on disk with the verdict it was given.
C13_SchedCrashSafe ==
    vpc = "crashed" =>
        /\ sched_csv.exists /\ sched_csv.header
        /\ Len(sched_csv.rows) = Len(rowsRead)
        /\ \A p \in 1..Len(rows) :
               \E j \in 1..Len(sched_csv.rows) :
                   /\ sched_csv.rows[j] \in {rows[p], SortedAtStart[p]}
                   /\ (\E i \in 1..(Len(invoked) - 1) : invoked[i] = p)
                          => sched_csv.rows[j] = rows[p]

\* the verdicts after which a row is not to be validated again
TerminalVerdicts == {"True", "False", "timed out", "out of memory"}

\* C14 (as claimed): no run invokes the validator on a row that carried a
\* terminal verdict when the run read the ledger.
C14_ValidatedOnce ==
    \A i \in 1..Len(invoked) :
        SortedAtStart[invoked[i]].schema_valid \notin TerminalVerdicts

(***************************************************************************)
(* Claims about the walk over the archive                                  *)
(***************************************************************************)

\* C15 (as claimed): a listing that fails with "550 No files found" does not
\* raise out of the walk.
C15_NoEntriesNonFatal ==
    cpc = "raised" => cfail.kind # "no_entries"

\* C16 (as claimed): a listing failure other than "no entries" ends only its
\* own branch: when the walk is over, no later sibling of the failed
\* directory or of the directories above it is left unvisited.
C16_SiblingsStillCrawled ==
    (cpc = "raised" /\ cfail.kind \in {"error_perm", "transient"})
        => (cyears = <<>> /\ cmonths = <<>> /\ cprojects = <<>>)

(***************************************************************************)
(* Claims about get_ftp_login                                              *)
(***************************************************************************)

\* C17: with max_retries = n > 0 get_ftp_login makes at most n attempts and
\* raises only after n failed attempts and n - 1 sleeps; with max_retries = 0
\* it never raises; it sleeps once after every failed attempt but the one it
\* raises in; and it returns only a session that was logged in, from an
\* attempt that did not fail.
C17_LoginRetryBound ==
    /\ lg_max > 0 => lg_attempt <= lg_max
    /\ (lg_max > 0 /\ lg_pc = "raised")
           => /\ lg_attempt = lg_max
              /\ lg_fails = lg_max
              /\ Len(lg_sleeps) = lg_max - 1
    /\ lg_max = 0 => lg_pc # "raised"
    /\ lg_pc \in {"loop", "returned"} => Len(lg_sleeps) = lg_fails
    /\ lg_pc = "returned"
           => (lg_session = "logged_in" /\ lg_attempt = lg_fails + 1)
    /\ lg_pc # "returned" => lg_session = "none"

\* three attempts of three failed: two sleeps, then the error is raised
C17_Witness ==
    /\ lg_max = 3
    /\ lg_pc = "raised"
    /\ lg_attempt = 3
    /\ lg_fails = 3
    /\ Len(lg_sleeps) = 2

(***************************************************************************)
(* Claims about the size strings                                           *)
(***************************************************************************)

Abs(x) == IF x < 0 THEN -x ELSE x

\* C18 (as claimed): parse_file_size(format_file_size(N)) is N for N < 1024,
\* differs from N by at most 0.05 of the unit of the string otherwise, and
\* 1536 is written as "1.5 KB" and read back as 1536.
C18_SizeRoundTrip ==
    sz_pc = "done" =>
        /\ sz_n < 1024 => sz_back = sz_n
        /\ 20 * Abs(sz_back - sz_n) <= UnitMultiplier(sz_text.unit)
        /\ sz_n = 1536
               => (sz_text = [num10 |-> 15, unit |-> "KB"] /\ sz_back = 1536)

(***************************************************************************)
(* Claims about the validator                                              *)
(***************************************************************************)

\* the mirrored file a ledger row is about
FileOfRow(row) ==
    CHOOSE f \in SchedFiles :
        f.name = row.file_name /\ f.dir[Len(f.dir)] = row.project

\* C19: a row has the verdict True only if its document names a schema of
\* the supported set and validates against it; when the validator's worker
\* returns for a document whose schema is not in the set, or whose schema
\* location is missing or malformed, the row's verdict is False, although the
\* document would validate against the schema it names.
C19_FailsClosed ==
    /\ \A p \in 1..Len(rows) :
           rows[p].schema_valid = "True"
               => /\ FileOfRow(rows[p]).schema_fname \in SUPPORTED_SCHEMAS
                  /\ FileOfRow(rows[p]).validates
    /\ (lastEvent = "result"
            /\ FileOfRow(LastInvokedRow).schema_fname \notin SUPPORTED_SCHEMAS)
           => LastInvokedRow.schema_valid = "False"

\* a run has validated a document of a supported schema (True), then one
\* without a schema location and one that names mzIdentML9.9.9.xsd
C19_Witness ==
    /\ lastEvent = "result"
    /\ FileOfRow(LastInvokedRow) = Sched3
    /\ FileOfRow(LastInvokedRow).validates
    /\ LastInvokedRow.schema_valid = "False"
    /\ LastInvokedRow.error_message = <<"Unsupported schema">>
    /\ \E p, q \in 1..Len(rows) :
           /\ rows[p].schema_valid = "True"
           /\ FileOfRow(rows[q]) = Sched5 /\ rows[q].schema_valid = "False"

(***************************************************************************)
(* Claims about the crosslinking subset file                               *)
(***************************************************************************)

\* C20 (as claimed): when generate_crosslinking_report has just run on a
\* ledger, the subset file holds the header and exactly the rows of that
\* ledger whose contains_MS1002511 is "True", in the ledger's order, and
\* nothing of the subset file it replaced.
C20_SubsetRebuilt ==
    crossed =>
        crosslinking_csv = [exists |-> TRUE, header |-> TRUE,
                            rows |-> MarkerRows(report_csv.rows)]

(***************************************************************************)
(* Claims about the ledger's header line                                   *)
(***************************************************************************)

\* C30 (as claimed): after any sequence of generate_report runs and crashes a
\* ledger file that holds data rows starts with its header line; no run
\* appends data rows to a file that has no header.
C30_LedgerHeader ==
    (report_csv.exists /\ report_csv.rows # <<>>) => report_csv.header

(***************************************************************************)
(* Claims about a killed downloader                                        *)
(***************************************************************************)

\* C29 (as claimed): the fetch_file call that follows a killed run returns
\* because the target path exists only when the complete file is there; what
\* a run killed in the middle of a transfer left behind is not taken for a
\* download.
C29_PresentIsComplete ==
    [][(fresult = "killed" /\ fresult' = "skipped")
           => localFile = "complete"]_vars

(***************************************************************************)
(* Claims about the unbounded downloader                                   *)
(***************************************************************************)

\* C23 (as claimed): with max_retries = 0 fetch_file never ends by raising a
\* failure of the transient class, be it raised by a download attempt, by
\* get_ftp_login or by line 115.
C23_UnboundedNeverGivesUp ==
    (fpc = "done" /\ max_retries = 0)
        => fresult \notin {"transient", "login_transient", "exhausted"}

(***************************************************************************)
(* Claims about the backoff schedule                                       *)
(***************************************************************************)

RECURSIVE Pow2(_)
Pow2(k) == IF k = 0 THEN 1 ELSE 2 * Pow2(k - 1)

\* the un-jittered delay before retry k
Scheduled(k) == Min(BaseDelay * Pow2(k - 1), MaxDelay)

\* a sleep within 10% of delay d and not above max_delay
WithinTenth(sleep, d) == 10 * Abs(sleep - d) <= d /\ sleep <= MaxDelay

\* C22: in fetch_file and in get_ftp_login alike, the delay before retry k is
\* min(base_delay * 2^(k-1), max_delay), the sleep is within 10% of it and
\* never above max_delay, and the delay kept for the next retry is the
\* doubled, capped one.
C22_BackoffSchedule ==
    [][/\ (transientFails' = transientFails + 1 /\ fpc' = "loop") =>
              /\ delay = Scheduled(transientFails')
              /\ WithinTenth(slept', delay)
              /\ delay' = Scheduled(transientFails' + 1)
       /\ (fpc = "login" /\ fpc' = "login") =>
              /\ ldelay = Scheduled(lattempt')
              /\ WithinTenth(slept', ldelay)
              /\ ldelay' = Scheduled(lattempt' + 1)]_vars

\* the tenth retry of an unbounded fetch_file: the doubled delay has passed
\* max_delay, and a jitter upwards is cut to max_delay
C22_Witness ==
    /\ fpc = "loop"
    /\ max_retries = 0
    /\ transientFails = 10
    /\ delay = MaxDelay
    /\ slept = MaxDelay

(***************************************************************************)
(* Claims about fetch_project                                              *)
(***************************************************************************)

\* the entries the leaf selector is claimed to choose: regular files whose
\* name holds 'mzid' in any case and does not end in '.mgf'
ClaimedLeaf(line) ==
    /\ line.flag = "-"
    /\ NameHasMzid(line.name)
    /\ ~EndsWithMgf(line.name)

RECURSIVE ClaimedLeaves(_)
ClaimedLeaves(lines) ==
    IF lines = <<>>
    THEN <<>>
    ELSE (IF ClaimedLeaf(lines[1]) THEN <<lines[1].name>> ELSE <<>>)
             \o ClaimedLeaves(Tail(lines))

\* C24 (as claimed): when fetch_project has returned, the names it passed to
\* fetch_file are exactly the names of the regular files of the listing whose
\* name contains 'mzid' (any case) and does not end in '.mgf', in listing
\* order, whatever the owner field and the other fields of the lines are.
C24_LeafSelector ==
    (pj_pc \in {"next", "done"} /\ pj_done > 0)
        => pj_fetched = ClaimedLeaves(pj_listing)

\* C25 (as claimed): of the files of a listing that match the marker,
\* fetch_project passes at most one to fetch_file, the first in listing order;
\* no fetch is issued for a later match.
C25_SingleLeader ==
    LET matches == {i \in 1..Len(pj_fetched) : NameHasMzid(pj_fetched[i])}
    IN /\ Cardinality(matches) <= 1
       /\ (matches # {} /\ ClaimedLeaves(pj_listing) # <<>>)
              => \A i \in matches :
                     pj_fetched[i] = ClaimedLeaves(pj_listing)[1]

Frame(row) ==
    <<row.project, row.date, row.file_name, row.file_size,
      row.contains_MS1002511, row.parseable>>

\* the rows the run may validate: passed by the filter, parseable, without a
\* True/False verdict when the run read them, and with a file in the mirror
Eligible(row) ==
    /\ use_filter => is_non_crosslinking(row)
    /\ row.parseable = "True"
    /\ row.schema_valid \notin {"True", "False"}
    /\ FilesFound(row.project, row.file_name) # {}

\* C27: a validate_schemas run neither adds nor removes a row; the file holds
\* the rows as the run read them or, once rewritten, these rows in size
\* order, each with its project, date, file_name, file_size,
\* contains_MS1002511 and parseable as read; a row the validator was not
\* called on has all its fields as read; and the validator is called only on
\* rows that pass the filter, are parseable, carry no True/False verdict and
\* have their file in the mirror.
C27_SchedFrame ==
    (vpc \in {"loop", "finished", "halted"} /\ sched_csv.exists) =>
        LET start == SortedAtStart
            called == {invoked[i] : i \in 1..Len(invoked)}
        IN /\ \A p \in called : Eligible(start[p])
           /\ \/ sched_csv.rows = rowsRead
              \/ /\ Len(sched_csv.rows) = Len(rowsRead)
                 /\ \A p \in 1..Len(rowsRead) :
                      /\ Frame(sched_csv.rows[p]) = Frame(start[p])
                      /\ p \notin called => sched_csv.rows[p] = start[p]

\* a second, filtering run has rewritten the file: it validated a row again,
\* passed over a row with a True/False verdict and over a row the filter
\* excludes
C27_Witness ==
    /\ vpc = "finished"
    /\ schedRuns = 2
    /\ use_filter
    /\ invoked # <<>>
    /\ sched_csv.rows # rowsRead
    /\ \E p \in 1..Len(rows) : ~is_non_crosslinking(rows[p])
    /\ \E p \in 1..Len(rows) :
         /\ rows[p].schema_valid \in {"True", "False"}
         /\ p \notin {invoked[i] : i \in 1..Len(invoked)}
         /\ is_non_crosslinking(rows[p])

(***************************************************************************)
(* Claims about data-quality outcomes                                      *)
(***************************************************************************)

C28_VerdictsDurable ==
    [][(reportRuns >= 1 /\ ~crashed) =>
          /\ \A i \in 1..Len(report_csv.rows) :
                report_csv.rows[i].schema_valid \in {"True", "False"} =>
                    \E j \in 1..Len(report_csv'.rows) :
                        /\ KeyOfRow(report_csv'.rows[j])
                               = KeyOfRow(report_csv.rows[i])
                        /\ report_csv'.rows[j].schema_valid
                               = report_csv.rows[i].schema_valid
          /\ \A i \in 1..Len(crosslinking_csv.rows) :
                crosslinking_csv.rows[i].schema_valid \in {"True", "False"} =>
                    \E j \in 1..Len(crosslinking_csv'.rows) :
                        /\ KeyOfRow(crosslinking_csv'.rows[j])
                               = KeyOfRow(crosslinking_csv.rows[i])
                        /\ crosslinking_csv'.rows[j].schema_valid
                               = crosslinking_csv.rows[i].schema_valid]_vars

====
